---- MODULE Spec2Model ----
(***************************************************************************)
(* Equivalent stressed volume of the notched fatigue specimen:             *)
(* the post-processing cells of examples/specimen_weibull/                 *)
(* specimen_weibull.ipynb (source lines 346-376).                          *)
(*                                                                         *)
(* The cells run top to bottom over two dictionaries, s_mises (element id  *)
(* -> von Mises stress per integration point) and volume_result.values     *)
(* (element id -> element volume):                                         *)
(*     s_mises_max = max(np.max(s) for s in s_mises.values())              *)
(*     v_eqv = 0.                                                          *)
(*     for eid, v in volume_result.values.items():                         *)
(*         s = s_mises[eid]                                                *)
(*         v_i = v / len(s)                                                *)
(*         v_eqv_e = np.sum((s / s_mises_max)**30 * v_i)                   *)
(*         v_eqv += v_eqv_e                                                *)
(*     v_eqv *= 8                                                          *)
(*                                                                         *)
(* Floating-point numbers are modelled by exact rationals <<n, d>> in      *)
(* lowest terms, extended with the IEEE specials numpy produces on a       *)
(* division by zero: <<1,0>> is +inf, <<-1,0>> is -inf, <<0,0>> is nan.    *)
(* Rounding is not modelled.  The exponent, written 30 in line 369 (the    *)
(* Weibull modulus m of the formula in lines 16-19), is the variable m,    *)
(* drawn from 1..MaxModulus: 30th powers do not fit TLC's integers.        *)
(***************************************************************************)
EXTENDS Integers, Sequences, FiniteSets, TLC

VARIABLES s_mises, volume, m, s_mises_max, v_eqv, todo, pc, err

vars == <<s_mises, volume, m, s_mises_max, v_eqv, todo, pc, err>>

(***************************************************************************)
(* Bounds of the model                                                     *)
(***************************************************************************)
MaxElems == 2
MaxPoints == 3
MaxStress == 2
MaxModulus == 2
MaxScale == 2

(* line 375: only 1/8 of the specimen was modelled *)
SymmetryFactor == 8

Elems == 1..MaxElems
(* stress magnitudes in steps of 10; -10 stands for a negative value *)
ValidStressVals == {10 * i : i \in 0..MaxStress}
StressVals == {-10} \cup ValidStressVals
(* element volumes *)
Volumes == {3, 4}
Moduli == 1..MaxModulus

(***************************************************************************)
(* Exact arithmetic standing for numpy's float64                           *)
(***************************************************************************)
Abs(x) == IF x < 0 THEN -x ELSE x

Sgn(x) == IF x > 0 THEN 1 ELSE IF x < 0 THEN -1 ELSE 0

RECURSIVE GCD(_, _)
GCD(a, b) == IF b = 0 THEN a ELSE GCD(b, a % b)

(* n/d in lowest terms with a positive denominator; x/0 is inf, -inf or nan *)
Norm(n, d) ==
    IF d = 0 THEN <<Sgn(n), 0>>
    ELSE LET g == GCD(Abs(n), Abs(d))
             s == Sgn(d)
         IN  <<(s * n) \div g, (s * d) \div g>>

Num(x) == <<x, 1>>

NaN == <<0, 0>>

IsFinite(a) == a[2] # 0

FDiv(a, b) == Norm(a[1] * b[2], a[2] * b[1])

FMul(a, b) == Norm(a[1] * b[1], a[2] * b[2])

FAdd(a, b) ==
    IF a[2] = 0 /\ b[2] = 0
    THEN (IF a[1] = b[1] THEN a ELSE NaN)
    ELSE Norm(a[1] * b[2] + b[1] * a[2], a[2] * b[2])

RECURSIVE FPow(_, _)
FPow(a, k) == IF k = 0 THEN Num(1) ELSE FMul(a, FPow(a, k - 1))

(* a <= b on finite values *)
FLeq(a, b) == a[1] * b[2] <= b[1] * a[2]

(***************************************************************************)
(* The computation                                                         *)
(***************************************************************************)
NoValue == <<>>

RECURSIVE SeqMax(_)
SeqMax(s) ==
    IF Len(s) = 1 THEN s[1]
    ELSE LET r == SeqMax(SubSeq(s, 2, Len(s)))
         IN  IF s[1] > r THEN s[1] ELSE r

(* mutant: min( ... ) written for max( ... ) in line 350 *)
SMisesMax_Min(stress) ==
    LET tops == {SeqMax(stress[e]) : e \in DOMAIN stress}
    IN  CHOOSE x \in tops : \A y \in tops : x <= y

(* line 350: the largest value over all integration points of all elements *)
SMisesMax(stress) ==
    LET tops == {SeqMax(stress[e]) : e \in DOMAIN stress}
    IN  CHOOSE x \in tops : \A y \in tops : y <= x

(* line 350 raises ValueError: max() of no element, np.max of no point *)
MaxRaises(stress) ==
    \/ DOMAIN stress = {}
    \/ \E e \in DOMAIN stress : Len(stress[e]) = 0

(* np.sum of the terms (s[i] / s_max)**m * v_i *)
RECURSIVE SumTerms(_, _, _, _)
SumTerms(s, smax, vi, k) ==
    IF s = <<>> THEN Num(0)
    ELSE FAdd(FMul(FPow(FDiv(Num(s[1]), smax), k), vi),
              SumTerms(SubSeq(s, 2, Len(s)), smax, vi, k))

(* mutant: the element volume is not divided by the number of points *)
VEqvE_WholeVolume(s, v, smax, k) == SumTerms(s, smax, Num(v), k)

(* mutant: the stress is not divided by s_mises_max *)
VEqvE_NoNormalise(s, v, smax, k) ==
    SumTerms(s, Num(1), FDiv(Num(v), Num(Len(s))), k)

(* mutant: v // len(s) written for v / len(s) *)
VEqvE_FloorShare(s, v, smax, k) == SumTerms(s, smax, Num(v \div Len(s)), k)

(* lines 367-369: the equivalent volume of one element *)
VEqvE(s, v, smax, k) ==
    LET v_i == FDiv(Num(v), Num(Len(s)))
    IN  SumTerms(s, smax, v_i, k)

(* lines 362-371 over a set of elements: v_eqv before the multiplication *)
RECURSIVE VEqvSum(_, _, _, _, _)
VEqvSum(stress, vol, smax, k, E) ==
    IF E = {} THEN Num(0)
    ELSE LET e == CHOOSE x \in E : TRUE
         IN  FAdd(VEqvSum(stress, vol, smax, k, E \ {e}),
                  VEqvE(stress[e], vol[e], smax, k))

(* lines 350-375 on inputs that raise nothing *)
VEqvRaw(stress, vol, k) ==
    VEqvSum(stress, vol, Num(SMisesMax(stress)), k, DOMAIN vol)

VEqv(stress, vol, k) == FMul(VEqvRaw(stress, vol, k), Num(SymmetryFactor))

(***************************************************************************)
(* Inputs                                                                  *)
(***************************************************************************)
(* the stress dictionaries over the keys K with at most budget points in   *)
(* total, each element with at least lo points                             *)
RECURSIVE StressMaps(_, _, _, _)
StressMaps(K, budget, lo, vals) ==
    IF K = {} THEN {[x \in {} |-> <<>>]}
    ELSE LET e == CHOOSE x \in K : TRUE
         IN  UNION {
               { [x \in K |-> IF x = e THEN s ELSE f[x]] :
                    s \in [1..l -> vals],
                    f \in StressMaps(K \ {e}, budget - l, lo, vals) }
               : l \in lo..budget }

TypeOK ==
    /\ DOMAIN s_mises \subseteq Elems
    /\ DOMAIN volume \subseteq Elems
    /\ m \in Moduli
    /\ pc \in {"max", "init", "loop", "scale", "done", "error"}
    /\ err \in {"none", "ValueError", "KeyError"}
    /\ todo \subseteq DOMAIN volume

InitRest ==
    /\ m \in Moduli
    /\ s_mises_max = NoValue
    /\ v_eqv = NoValue
    /\ todo = {}
    /\ pc = "max"
    /\ err = "none"

(* any two dictionaries: keys may differ, elements may have no points,     *)
(* values may be negative                                                  *)
Init ==
    /\ \E K \in SUBSET Elems : s_mises \in StressMaps(K, MaxPoints, 0, StressVals)
    /\ \E K \in SUBSET Elems : volume \in [K -> Volumes]
    /\ InitRest

(* the dictionaries of a solved model: the same elements in both, each with *)
(* at least one point, no negative stress, some positive stress, positive  *)
(* volumes                                                                 *)
ValidInput ==
    /\ DOMAIN s_mises = DOMAIN volume
    /\ DOMAIN s_mises # {}
    /\ \A e \in DOMAIN s_mises :
          /\ Len(s_mises[e]) >= 1
          /\ \A i \in 1..Len(s_mises[e]) : s_mises[e][i] >= 0
    /\ \E e \in DOMAIN s_mises : \E i \in 1..Len(s_mises[e]) : s_mises[e][i] > 0
    /\ \A e \in DOMAIN volume : volume[e] > 0

(* line 296 prints stress and volume for the same element set *)
InitValid ==
    /\ \E K \in SUBSET Elems :
          /\ K # {}
          /\ s_mises \in StressMaps(K, MaxPoints, 1, ValidStressVals)
          /\ volume \in [K -> Volumes]
    /\ \E e \in DOMAIN s_mises : \E i \in 1..Len(s_mises[e]) : s_mises[e][i] > 0
    /\ InitRest

(***************************************************************************)
(* The cells, statement by statement                                       *)
(***************************************************************************)
(* line 350 *)
ComputeMax ==
    /\ pc = "max"
    /\ IF MaxRaises(s_mises)
       THEN /\ pc' = "error"
            /\ err' = "ValueError"
            /\ UNCHANGED s_mises_max
       ELSE /\ s_mises_max' = Num(SMisesMax(s_mises))
            /\ pc' = "init"
            /\ UNCHANGED err
    /\ UNCHANGED <<s_mises, volume, m, v_eqv, todo>>

(* line 362, and the iterator of line 363 *)
StartSum ==
    /\ pc = "init"
    /\ v_eqv' = Num(0)
    /\ todo' = DOMAIN volume
    /\ pc' = "loop"
    /\ UNCHANGED <<s_mises, volume, m, s_mises_max, err>>

(* lines 363-371: one iteration; the dictionary yields its keys in         *)
(* insertion order, which is any order                                     *)
LoopStep ==
    /\ pc = "loop"
    /\ IF todo = {}
       THEN /\ pc' = "scale"
            /\ UNCHANGED <<v_eqv, todo, err>>
       ELSE \E eid \in todo :
              IF eid \notin DOMAIN s_mises
              THEN /\ pc' = "error"
                   /\ err' = "KeyError"
                   /\ UNCHANGED <<v_eqv, todo>>
              ELSE /\ v_eqv' = FAdd(v_eqv,
                                    VEqvE(s_mises[eid], volume[eid], s_mises_max, m))
                   /\ todo' = todo \ {eid}
                   /\ UNCHANGED <<pc, err>>
    /\ UNCHANGED <<s_mises, volume, m, s_mises_max>>

(* mutant: the multiplication by 8 is left out *)
Scale_NoFactor ==
    /\ pc = "scale"
    /\ pc' = "done"
    /\ UNCHANGED <<s_mises, volume, m, s_mises_max, v_eqv, todo, err>>

(* line 375 *)
Scale ==
    /\ pc = "scale"
    /\ v_eqv' = FMul(v_eqv, Num(SymmetryFactor))
    /\ pc' = "done"
    /\ UNCHANGED <<s_mises, volume, m, s_mises_max, todo, err>>

Next == ComputeMax \/ StartSum \/ LoopStep \/ Scale

Spec == Init /\ [][Next]_vars

SpecValid == InitValid /\ [][Next]_vars

(***************************************************************************)
(* Notions the properties are stated with                                  *)
(***************************************************************************)
RECURSIVE SumVol(_)
SumVol(E) ==
    IF E = {} THEN 0
    ELSE LET e == CHOOSE x \in E : TRUE IN volume[e] + SumVol(E \ {e})

(* every integration point of the stress dictionary, as <<element, index>> *)
Points == UNION {{<<e, i>> : i \in 1..Len(s_mises[e])} : e \in DOMAIN s_mises}

StressAt(p) == s_mises[p[1]][p[2]]

RECURSIVE IntPow(_, _)
IntPow(x, k) == IF k = 0 THEN 1 ELSE x * IntPow(x, k - 1)

(* the global maximum, stated over the points *)
GlobalMax == CHOOSE x \in {StressAt(p) : p \in Points} : \A q \in Points : StressAt(q) <= x

(* sum over points of (s / s_max)^m * (V_e / n_e) *)
RECURSIVE WeightedSum(_)
WeightedSum(P) ==
    IF P = {} THEN Num(0)
    ELSE LET p == CHOOSE x \in P : TRUE
             term == FMul(Norm(IntPow(StressAt(p), m), IntPow(GlobalMax, m)),
                          Norm(volume[p[1]], Len(s_mises[p[1]])))
         IN  FAdd(term, WeightedSum(P \ {p}))

Scaled(stress, k) ==
    [e \in DOMAIN stress |-> [i \in 1..Len(stress[e]) |-> k * stress[e][i]]]

ExampleStress == [e \in {1, 2} |-> IF e = 1 THEN <<10, 20>> ELSE <<20>>]

ExampleVolume == [e \in {1, 2} |-> IF e = 1 THEN 4 ELSE 3]

IsExample == s_mises = ExampleStress /\ volume = ExampleVolume /\ m = 1

AllEqualPositive ==
    /\ ValidInput
    /\ \E c \in ValidStressVals : c > 0 /\ \A p \in Points : StressAt(p) = c

HasNegative == \E p \in Points : StressAt(p) < 0

HasPositive == \E p \in Points : StressAt(p) > 0

NoEmptyElement == \A e \in DOMAIN s_mises : Len(s_mises[e]) >= 1

SameKeys == DOMAIN s_mises = DOMAIN volume /\ DOMAIN s_mises # {}

(* an element has been accumulated *)
SomeAccumulated == pc \in {"loop", "scale", "done", "error"} /\ todo # DOMAIN volume

C2_Bounded ==
    pc \in {"loop", "scale"} =>
        /\ IsFinite(v_eqv)
        /\ FLeq(Num(0), v_eqv)
        /\ FLeq(v_eqv, Num(SumVol(DOMAIN volume)))
        /\ \A p \in Points :
              /\ FLeq(Num(0), FDiv(Num(StressAt(p)), s_mises_max))
              /\ FLeq(FDiv(Num(StressAt(p)), s_mises_max), Num(1))

C2_Witness ==
    /\ pc = "loop"
    /\ todo # {}
    /\ todo # DOMAIN volume
    /\ v_eqv # Num(0)
    /\ FLeq(v_eqv, Num(SumVol(DOMAIN volume)))

(***************************************************************************)
(* C3: multiplying every stress value by a positive k leaves the result    *)
(* unchanged and multiplies s_max by k.                                    *)
(***************************************************************************)
C3_ScaleInvariant ==
    pc = "done" =>
        \A k \in 1..MaxScale :
            /\ VEqv(Scaled(s_mises, k), volume, m) = v_eqv
            /\ Num(SMisesMax(Scaled(s_mises, k))) = FMul(Num(k), s_mises_max)

C3_Witness ==
    /\ pc = "done"
    /\ MaxScale >= 2
    /\ \E p \in Points : StressAt(p) # GlobalMax /\ StressAt(p) > 0
    /\ VEqv(Scaled(s_mises, 2), volume, m) = v_eqv

(***************************************************************************)
(* C4, as stated: with all stress values equal to one positive constant    *)
(* the total before the multiplication is SymmetryFactor * sum of volumes. *)
(***************************************************************************)
C4_Original ==
    (AllEqualPositive /\ pc = "scale") =>
        v_eqv = Num(SymmetryFactor * SumVol(DOMAIN volume))

(***************************************************************************)
(* C4, amended: with all stress values equal to one positive constant the  *)
(* total before the multiplication is the sum of the volumes, and the      *)
(* result is SymmetryFactor * sum of the volumes, for every modulus and    *)
(* every number of integration points.                                     *)
(***************************************************************************)
C4_Amended ==
    AllEqualPositive =>
        /\ pc = "scale" => v_eqv = Num(SumVol(DOMAIN volume))
        /\ pc = "done" => v_eqv = Num(SymmetryFactor * SumVol(DOMAIN volume))

C4_Witness ==
    /\ AllEqualPositive
    /\ pc = "done"
    /\ \E e \in DOMAIN s_mises : Len(s_mises[e]) >= 2
    /\ v_eqv = Num(SymmetryFactor * SumVol(DOMAIN volume))

C6_MismatchFails ==
    (/\ DOMAIN s_mises # DOMAIN volume
     /\ DOMAIN s_mises # {}
     /\ DOMAIN volume # {}
     /\ NoEmptyElement /\ ~HasNegative /\ HasPositive)
        => pc # "done"

(***************************************************************************)
(* C7: when an integration point carries a negative stress value the       *)
(* computation fails and produces no result (stated for inputs that are    *)
(* valid apart from the negative values and have a positive maximum).      *)
(***************************************************************************)
C7_NegativeFails ==
    (HasNegative /\ HasPositive /\ SameKeys /\ NoEmptyElement) => pc # "done"

(***************************************************************************)
(* C8: when either dictionary is empty the computation fails; an empty     *)
(* volume dictionary never yields a result (stated for stress values that  *)
(* are all valid).                                                         *)
(***************************************************************************)
C8_EmptyFails ==
    (/\ DOMAIN s_mises = {} \/ DOMAIN volume = {}
     /\ NoEmptyElement /\ ~HasNegative
     /\ DOMAIN s_mises # {} => HasPositive)
        => pc # "done"

(***************************************************************************)
(* C9: when s_max is zero or negative the computation fails before any     *)
(* element is normalised by it (stated for inputs without negative values, *)
(* where s_max <= 0 means that every stress value is 0).                   *)
(***************************************************************************)
C9_NoDivisionByNonPositive ==
    (/\ s_mises_max # NoValue
     /\ SameKeys /\ NoEmptyElement /\ ~HasNegative)
        => (s_mises_max[1] <= 0 => ~SomeAccumulated)

(***************************************************************************)
(* C10: in a run that fails while iterating over the elements, after some  *)
(* element has been accumulated, no equivalent volume is observable: the   *)
(* accumulator does not hold the sum of the elements processed so far      *)
(* (stated for stress values that are all valid).                          *)
(***************************************************************************)
C10_NoPartialResult ==
    (/\ pc = "error" /\ err = "KeyError" /\ SomeAccumulated
     /\ NoEmptyElement /\ ~HasNegative /\ HasPositive)
        => v_eqv = NoValue

====
